---- MODULE Spec2Model ----
(***************************************************************************)
(* Planning Center / Bill.com synchronisation jobs.                        *)
(*                                                                         *)
(*   utilities.py     process_all_clients -> process_client -> fetch_data  *)
(*                    -> load_to_bigquery            (Spec, SpecFetch,     *)
(*                                                    SpecFetchLive)       *)
(*   main-v2.py,                                                           *)
(*   utilities-v2.py  main -> process_endpoint       (SpecMain,            *)
(*                                                    SpecConcurrent)      *)
(*   main.py          process_transactions           (SpecTransactions)    *)
(*   utilities.py     get_existing_record_ids        (SpecIds)             *)
(*   utilities.py     load_to_bigquery, batch by batch  (SpecLoad)         *)
(*   all three        one field of one item normalised  (SpecNormalise)    *)
(*   utilities.py     flatten_donor_data             (SpecDonor)           *)
(*                                                                         *)
(* Each program has its own variables; a specification of one program      *)
(* leaves the variables of the others at their initial values.             *)
(***************************************************************************)
EXTENDS Integers, Sequences, FiniteSets, TLC

VARIABLES
    \* ---- utilities.py ----
    config,       \* config["clients"] as read from config.json
    api,          \* the source API: its page chain and the page whose request fails
    hang_at,      \* the page whose request gets no answer (0: every request is answered)
    run,          \* number of the current invocation of process_all_clients
    ci,           \* index of the client the `for client in clients` loop is at
    ei,           \* index of the endpoint the `for endpoint in ENDPOINTS` loop is at
    pc,           \* control location
    filters,      \* fetch_data: TRUE when a filters dict was passed
    next_url,     \* fetch_data: next_url (0 is None, k is the URL of page k)
    all_data,     \* fetch_data: all_data
    request_log,  \* the page requests issued by the current call of fetch_data
    tables,       \* the destination store: rows of table <<client, endpoint>>
    processed,    \* the <<run, client, endpoint>> passes that ran to their end
    failed,       \* the <<run, client, endpoint>> passes whose exception line 216 caught
    run_error,    \* TRUE when an exception reached line 237 of process_all_clients
    \* ---- main-v2.py, utilities-v2.py ----
    variant,      \* which of the two files runs
    credentials,  \* TRUE when CLIENT_ID and CLIENT_SECRET are in the environment
    source,       \* what fetch_data_from_api returns for an endpoint
    store,        \* the destination store: rows of the table of endpoint e
    w,            \* per invocation of main: its position and locals
    load_log,     \* per table, the passes that reached the load (main-v2 line 53, utilities-v2 line 67)
    \* ---- main.py ----
    client_config,   \* process_transactions: client_config (Client_Schema of each row)
    t_pc,            \* control location
    t_i,             \* index of the configuration the loop is at
    transactions,    \* number of transactions fetch_transactions returned
    results,         \* process_transactions: results
    status_updates,  \* the Sync_Status updates made, in order
    inserted,        \* the inserts into divvy_transactions made, in order
    response,        \* what process_transactions returned
    \* ---- utilities.py: get_existing_record_ids ----
    q_rows,          \* the id column of the rows of the destination table
    q_fails,         \* TRUE when bq_client.query / result raises
    q_pc,            \* control location
    q_result,        \* what get_existing_record_ids returned
    \* ---- utilities.py: load_to_bigquery ----
    l_data,          \* load_to_bigquery: data
    batch_size,      \* load_to_bigquery: batch_size
    l_fail,          \* the batches whose insert_rows_json call fails, and how
    l_pc,            \* control location
    inserts,         \* load_to_bigquery: inserts
    l_i,             \* load_to_bigquery: i of the batch loop
    l_table,         \* the rows of the destination table
    l_calls,         \* the calls made to the store, in order
    \* ---- one field of one item: process_endpoint, cast_to_schema ----
    n_path,          \* "process_endpoint" (of the file variant) or "cast_to_schema"
    n_type,          \* field.field_type / field["type"]
    n_item,          \* the item: its attribute of the field's name, its relationships
    n_pc,            \* control location
    n_value,         \* value, as extracted
    n_out,           \* the value stored in the record / the casted row
    \* ---- utilities.py: flatten_donor_data ----
    d_attributes,    \* flatten_donor_data: attributes
    d_pc,            \* control location
    d_out            \* the dict flatten_donor_data returned

varsA == <<config, api, hang_at, run, ci, ei, pc, filters, next_url, all_data, request_log,
           tables, processed, failed, run_error>>

varsB == <<variant, credentials, source, store, w, load_log>>

varsC == <<client_config, t_pc, t_i, transactions, results, status_updates,
           inserted, response>>

varsD == <<q_rows, q_fails, q_pc, q_result>>

\* the variables of the functions checked on their own
varsE == <<l_data, batch_size, l_fail, l_pc, inserts, l_i, l_table, l_calls>>

varsF == <<n_path, n_type, n_item, n_pc, n_value, n_out>>

varsG == <<d_attributes, d_pc, d_out>>

varsP == <<varsD, varsE, varsF, varsG>>

vars == <<varsA, varsB, varsC, varsP>>

----------------------------------------------------------------------------
(* Bounds *)

MaxItems == 3       \* items the source API holds for one endpoint (SpecFetch)
MaxPages == 2       \* pages the source API cuts them into (SpecFetch)
MaxSyncItems == 1   \* the same two bounds for the whole run (Spec)
MaxSyncPages == 1
MaxClients == 2     \* clients of config.json
MaxRuns == 2        \* invocations of process_all_clients
MaxFetched == 2     \* items fetch_data_from_api returns (main-v2, utilities-v2)
MaxPreloaded == 1   \* rows a destination table holds before the first pass
MaxCalls == 2       \* sequential invocations of main
MaxConfigs == 2     \* rows of the client configuration table (main.py)
MaxTransactions == 2  \* transactions fetch_transactions returns
MaxStoredIds == 3   \* rows of the table get_existing_record_ids queries
MaxLoadItems == 3   \* items passed to load_to_bigquery
MaxBatchSize == 2   \* batch_size passed to load_to_bigquery
MaxEmails == 2      \* elements of a donor's email_addresses array

----------------------------------------------------------------------------
(* Helpers *)

SeqsUpTo(S, n) == UNION {[1..k -> S] : k \in 0..n}

RECURSIVE Flatten(_)
Flatten(ss) == IF ss = <<>> THEN <<>> ELSE Head(ss) \o Flatten(Tail(ss))

RECURSIVE Splits(_, _)
\* the ways to cut the sequence s into exactly k consecutive pages
Splits(s, k) ==
    IF k = 1 THEN {<<s>>}
    ELSE UNION {{<<SubSeq(s, 1, i)>> \o rest :
                    rest \in Splits(SubSeq(s, i + 1, Len(s)), k - 1)} :
                i \in 0..Len(s)}

Range(s) == {s[i] : i \in 1..Len(s)}

Count(s, x) == Cardinality({i \in 1..Len(s) : s[i] = x})

----------------------------------------------------------------------------
(* utilities.py: data *)

ENDPOINTS == <<"pco-donations", "pco-designations", "pco-funds",
               "pco-campuses", "pco-donors">>

\* Raw items of the source API. payment_status "none": the attribute is absent.
FetchItems ==
    { [id |-> "1", payment_status |-> "succeeded"],
      [id |-> "2", payment_status |-> "succeeded"],
      [id |-> "3", payment_status |-> "pending"],
      [id |-> "4", payment_status |-> "none"] }

SyncItems ==
    { [id |-> "1", payment_status |-> "succeeded"],
      [id |-> "3", payment_status |-> "pending"] }

\* The source API as the run sees it: the pages of a collection, page k linking
\* to page k + 1 and the last to None; the request for page fail_at ends in a
\* requests.exceptions.RequestException (0: no request fails).
Apis(items, maxItems, maxPages) ==
    UNION {{[pages |-> p, fail_at |-> f] : f \in 0..Len(p)} :
           p \in UNION {Splits(s, k) : s \in SeqsUpTo(items, maxItems),
                                       k \in 1..maxPages}}

\* A client entry of config.json, by what it lacks.
ClientShapes == {"ok", "no_name", "no_api", "no_client_id", "no_dataset"}

Configs == SeqsUpTo(ClientShapes, MaxClients)

TableKeys == (1..MaxClients) \X (1..Len(ENDPOINTS))

----------------------------------------------------------------------------
(* utilities.py: fetch_data *)

\* succeeded_only with the test written as `!= "pending"`
succeeded_only_not_pending(fetched_data) ==
    SelectSeq(fetched_data, LAMBDA item : item.payment_status # "pending")

\* line 186: the post-fetch filter of the donations endpoint
succeeded_only(fetched_data) ==
    SelectSeq(fetched_data, LAMBDA item : item.payment_status = "succeeded")

\* lines 183-186: fetched_data of one page
fetched_page(endpoint, data) ==
    IF endpoint = "pco-donations" THEN succeeded_only(data) ELSE data

\* extend with the page put in front of the accumulated items
extend_in_front(list, fetched_data) == fetched_data \o list

\* line 189: all_data.extend(fetched_data)
extend(list, fetched_data) == list \o fetched_data

\* line 190: data["links"].get("next")
links_next(k) == IF k < Len(api.pages) THEN k + 1 ELSE 0

\* lines 176-190: one turn of the while loop whose request succeeds
FetchPage ==
    /\ pc = "fetch"
    /\ next_url # 0
    /\ next_url # hang_at
    /\ next_url # api.fail_at
    /\ request_log' = Append(request_log, next_url)
    /\ all_data' = extend(all_data, fetched_page(ENDPOINTS[ei], api.pages[next_url]))
    /\ next_url' = links_next(next_url)
    /\ UNCHANGED <<varsB, varsC, varsP>>
    /\ UNCHANGED <<config, api, hang_at, run, ci, ei, pc, filters, tables, processed,
                   failed, run_error>>

\* FetchFail with the handler returning an empty list instead of breaking
FetchFail_return_empty ==
    /\ pc = "fetch"
    /\ next_url # 0
    /\ next_url # hang_at
    /\ next_url = api.fail_at
    /\ request_log' = Append(request_log, next_url)
    /\ all_data' = <<>>
    /\ pc' = "load"
    /\ UNCHANGED <<varsB, varsC, varsP>>
    /\ UNCHANGED <<config, api, hang_at, run, ci, ei, filters, next_url, tables,
                   processed, failed, run_error>>

\* lines 176-181, 191-196: the request raises a RequestException; break, return
FetchFail ==
    /\ pc = "fetch"
    /\ next_url # 0
    /\ next_url # hang_at
    /\ next_url = api.fail_at
    /\ request_log' = Append(request_log, next_url)
    /\ pc' = "load"
    /\ UNCHANGED <<varsB, varsC, varsP>>
    /\ UNCHANGED <<config, api, hang_at, run, ci, ei, filters, next_url, all_data, tables,
                   processed, failed, run_error>>

\* line 179: requests.get is called without a timeout and the server never
\* answers; the call does not return
FetchHang ==
    /\ pc = "fetch"
    /\ next_url # 0
    /\ next_url = hang_at
    /\ request_log' = Append(request_log, next_url)
    /\ pc' = "request"
    /\ UNCHANGED <<varsB, varsC, varsP>>
    /\ UNCHANGED <<config, api, hang_at, run, ci, ei, filters, next_url, all_data,
                   tables, processed, failed, run_error>>

\* lines 176, 195-196: next_url is None; return all_data
FetchExit ==
    /\ pc = "fetch"
    /\ next_url = 0
    /\ pc' = "load"
    /\ UNCHANGED <<varsB, varsC, varsP>>
    /\ UNCHANGED <<config, api, hang_at, run, ci, ei, filters, next_url, all_data,
                   request_log, tables, processed, failed, run_error>>

----------------------------------------------------------------------------
(* utilities.py: load_to_bigquery, process_client, process_all_clients *)

\* lines 127-145: one row per item, its id the string form of the item's id
rows_of(data) == [i \in 1..Len(data) |-> [id |-> data[i].id]]

\* lines 112-114, 147-158: nothing is written for no data; otherwise the rows
\* are appended to the table
load_to_bigquery(table, data) ==
    IF data = <<>> THEN table ELSE table \o rows_of(data)

\* line 215 and the end of the loop body
Load ==
    /\ pc = "load"
    /\ tables' = [tables EXCEPT ![<<ci, ei>>] = load_to_bigquery(@, all_data)]
    /\ processed' = processed \cup {<<run, ci, ei>>}
    /\ ei' = ei + 1
    /\ pc' = "endpoint"
    /\ UNCHANGED <<varsB, varsC, varsP>>
    /\ UNCHANGED <<config, api, hang_at, run, ci, filters, next_url, all_data, request_log,
                   failed, run_error>>

\* lines 221-228
Start ==
    /\ pc = "start"
    /\ ci' = 1
    /\ pc' = IF config = <<>> THEN "done" ELSE "client"
    /\ UNCHANGED <<varsB, varsC, varsP>>
    /\ UNCHANGED <<config, api, hang_at, run, ei, filters, next_url, all_data, request_log,
                   tables, processed, failed, run_error>>

\* lines 230-232, 200-201: the client's name, credentials and dataset are read
ClientEnter ==
    /\ pc = "client"
    /\ ci <= Len(config)
    /\ config[ci] \in {"ok", "no_client_id"}
    /\ ei' = 1
    /\ pc' = "endpoint"
    /\ UNCHANGED <<varsB, varsC, varsP>>
    /\ UNCHANGED <<config, api, hang_at, run, ci, filters, next_url, all_data, request_log,
                   tables, processed, failed, run_error>>

\* lines 231, 200, 201: client['name'], client["api"] or
\* client["bigquery"]["dataset"] raises KeyError, which line 237 catches
ClientRaise ==
    /\ pc = "client"
    /\ ci <= Len(config)
    /\ config[ci] \in {"no_name", "no_api", "no_dataset"}
    /\ run_error' = TRUE
    /\ pc' = "done"
    /\ UNCHANGED <<varsB, varsC, varsP>>
    /\ UNCHANGED <<config, api, hang_at, run, ci, ei, filters, next_url, all_data,
                   request_log, tables, processed, failed>>

\* line 230: the loop over the clients ends
ClientsEnd ==
    /\ pc = "client"
    /\ ci > Len(config)
    /\ pc' = "done"
    /\ UNCHANGED <<varsB, varsC, varsP>>
    /\ UNCHANGED <<config, api, hang_at, run, ci, ei, filters, next_url, all_data,
                   request_log, tables, processed, failed, run_error>>

\* lines 203-214, 162-174: filters are set for the donations endpoint and
\* fetch_data starts with the first page's URL
EndpointFetch ==
    /\ pc = "endpoint"
    /\ ei <= Len(ENDPOINTS)
    /\ config[ci] = "ok"
    /\ filters' = (ENDPOINTS[ei] = "pco-donations")
    /\ next_url' = 1
    /\ all_data' = <<>>
    /\ request_log' = <<>>
    /\ pc' = "fetch"
    /\ UNCHANGED <<varsB, varsC, varsP>>
    /\ UNCHANGED <<config, api, hang_at, run, ci, ei, tables, processed, failed, run_error>>

\* lines 163, 216-217: api_credentials['client_id'] raises KeyError inside
\* fetch_data; the handler of process_client prints it and the loop goes on
EndpointRaise ==
    /\ pc = "endpoint"
    /\ ei <= Len(ENDPOINTS)
    /\ config[ci] = "no_client_id"
    /\ failed' = failed \cup {<<run, ci, ei>>}
    /\ ei' = ei + 1
    /\ UNCHANGED <<varsB, varsC, varsP>>
    /\ UNCHANGED <<config, api, hang_at, run, ci, pc, filters, next_url, all_data,
                   request_log, tables, processed, run_error>>

\* line 203: the loop over the endpoints ends; process_client returns
EndpointsEnd ==
    /\ pc = "endpoint"
    /\ ei > Len(ENDPOINTS)
    /\ ci' = ci + 1
    /\ pc' = "client"
    /\ UNCHANGED <<varsB, varsC, varsP>>
    /\ UNCHANGED <<config, api, hang_at, run, ei, filters, next_url, all_data, request_log,
                   tables, processed, failed, run_error>>

\* the scheduler invokes process_all_clients again
Rerun ==
    /\ pc = "done"
    /\ run < MaxRuns
    /\ run' = run + 1
    /\ run_error' = FALSE
    /\ pc' = "start"
    /\ UNCHANGED <<varsB, varsC, varsP>>
    /\ UNCHANGED <<config, api, hang_at, ci, ei, filters, next_url, all_data, request_log,
                   tables, processed, failed>>

----------------------------------------------------------------------------
(* main-v2.py, utilities-v2.py: data *)

\* main: the endpoints list (donations, designations, funds, campuses, donors)
endpoints == <<"pco-donations", "pco-designations", "pco-funds",
               "pco-campuses", "pco-donors">>

Workers == {1, 2}

NULL == "<None>"

\* The id of a raw item as it arrives: a number, a string, null, or no "id"
\* key at all.  v is its text.
IntId(v) == [t |-> "int", v |-> v]
StrId(v) == [t |-> "str", v |-> v]
NoneId == [t |-> "none", v |-> "None"]
MissingId == [t |-> "missing", v |-> ""]

\* Raw items: kind "empty" is a null or empty item; name is attributes["name"].
RawItems ==
    { [kind |-> "item", id |-> IntId("1"), name |-> "new"],
      [kind |-> "item", id |-> StrId("1"), name |-> "new"],
      [kind |-> "item", id |-> StrId("2"), name |-> "new"],
      [kind |-> "item", id |-> StrId("2"), name |-> NULL],
      [kind |-> "item", id |-> NoneId, name |-> "new"],
      [kind |-> "item", id |-> MissingId, name |-> "new"],
      [kind |-> "empty", id |-> MissingId, name |-> NULL] }

\* what fetch_data_from_api may return: a list of items, or None
NoneData == [is_none |-> TRUE, items |-> <<>>]
ListData(items) == [is_none |-> FALSE, items |-> items]

Sources == {ListData(items) : items \in SeqsUpTo(RawItems, MaxFetched)} \cup {NoneData}

\* rows a table may hold from earlier syncs
StoredRows ==
    { [id |-> StrId("1"), name |-> "old"],
      [id |-> StrId("2"), name |-> "old"] }

Preloads == SeqsUpTo(StoredRows, MaxPreloaded)

\* a worker that is not running
OffWorker ==
    [pc |-> "off", ei |-> 1, call |-> 1, data_items |-> ListData(<<>>),
     existing_ids |-> {}, called |-> {}, result |-> ""]

----------------------------------------------------------------------------
(* main-v2.py, utilities-v2.py: process_endpoint and main *)

\* str(x)
str(id) == StrId(id.v)

\* utilities-v2 line 15 `if not data_items`, main-v2 line 13 `is None`
no_data(data_items) ==
    IF variant = "utilities-v2" THEN data_items.is_none \/ data_items.items = <<>>
    ELSE data_items.is_none

\* the existing-id set of a table: the string forms of the ids of its rows
get_existing_ids(table) == {str(table[i].id) : i \in 1..Len(table)}

\* utilities-v2 line 26 `str(item["id"])`, main-v2 line 25 `item["id"]`
record_id(item) == IF variant = "utilities-v2" THEN str(item.id) ELSE item.id

\* a STRING field: utilities-v2 lines 32, 40, 57-58 leave null as it is;
\* main-v2 lines 32, 40-42 store '' for null
field_value(value) ==
    IF variant = "utilities-v2" THEN value
    ELSE IF value = NULL THEN "" ELSE value

\* utilities-v2 lines 26-61, main-v2 lines 25-47: the record of one item
record_of(item) == [id |-> record_id(item), name |-> field_value(item.name)]

\* is_new with the membership test left out
is_new_always(record, existing_ids) == TRUE

\* is_new with the membership test inverted
is_new_inverted(record, existing_ids) ==
    IF variant = "utilities-v2" THEN str(record.id) \in existing_ids
    ELSE record.id \in existing_ids

\* utilities-v2 line 64 `str(record[id_field]) not in existing_ids`,
\* main-v2 line 49 `record[id_field] not in existing_ids`
is_new(record, existing_ids) ==
    IF variant = "utilities-v2" THEN str(record.id) \notin existing_ids
    ELSE record.id \notin existing_ids

\* utilities-v2 lines 22-24, main-v2 lines 21-23: empty items are skipped
items_of(data_items) ==
    SelectSeq(data_items.items, LAMBDA item : item.kind # "empty")

\* item["id"] raises KeyError for the first item without an "id" key
raises_KeyError(data_items) ==
    \E i \in 1..Len(items_of(data_items)) : items_of(data_items)[i].id = MissingId

\* utilities-v2 lines 21-65, main-v2 lines 20-50: new_records
new_records(data_items, existing_ids) ==
    LET records == [i \in 1..Len(items_of(data_items)) |->
                        record_of(items_of(data_items)[i])]
    IN  SelectSeq(records, LAMBDA record : is_new(record, existing_ids))

\* load_to_bigquery(dataset_id, table_id, new_records, schema): the rows are
\* appended to the table
append_rows(table, records) == table \o records

\* utilities-v2 lines 13-17, main-v2 lines 11-15: nothing retrieved, return
PassSkip(p) ==
    /\ w[p].pc = "main"
    /\ credentials
    /\ w[p].ei <= Len(endpoints)
    /\ no_data(source)
    /\ w' = [w EXCEPT ![p].data_items = source,
                      ![p].called = @ \cup {w[p].ei},
                      ![p].ei = @ + 1]
    /\ UNCHANGED <<variant, credentials, source, store, load_log>>
    /\ UNCHANGED <<varsA, varsC, varsP>>

\* utilities-v2 line 13, main-v2 line 11: data_items = fetch_data_from_api(..)
PassFetch(p) ==
    /\ w[p].pc = "main"
    /\ credentials
    /\ w[p].ei <= Len(endpoints)
    /\ ~no_data(source)
    /\ w' = [w EXCEPT ![p].data_items = source,
                      ![p].called = @ \cup {w[p].ei},
                      ![p].pc = "fetched"]
    /\ UNCHANGED <<variant, credentials, source, store, load_log>>
    /\ UNCHANGED <<varsA, varsC, varsP>>

\* utilities-v2 line 19, main-v2 line 18: existing_ids = get_existing_ids(..)
PassSnapshot(p) ==
    /\ w[p].pc = "fetched"
    /\ w' = [w EXCEPT ![p].existing_ids = get_existing_ids(store[w[p].ei]),
                      ![p].pc = "snapshot"]
    /\ UNCHANGED <<variant, credentials, source, store, load_log>>
    /\ UNCHANGED <<varsA, varsC, varsP>>

\* PassLoad with the existing ids queried again after the load
PassLoad_requery(p) ==
    /\ w[p].pc = "snapshot"
    /\ ~raises_KeyError(w[p].data_items)
    /\ LET new == new_records(w[p].data_items, w[p].existing_ids)
           e == w[p].ei
       IN  /\ store' = [store EXCEPT ![e] = IF new # <<>> THEN append_rows(@, new)
                                            ELSE @]
           /\ load_log' = [load_log EXCEPT ![e] =
                             Append(@, [existing |-> w[p].existing_ids,
                                        items |-> w[p].data_items,
                                        sent |-> new])]
           /\ w' = [w EXCEPT ![p].ei = @ + 1, ![p].pc = "main",
                             ![p].existing_ids =
                                 get_existing_ids(append_rows(store[e], new))]
    /\ UNCHANGED <<variant, credentials, source>>
    /\ UNCHANGED <<varsA, varsC, varsP>>

\* utilities-v2 lines 21-68, main-v2 lines 20-57: the records are built, the
\* new ones are loaded, process_endpoint returns
PassLoad(p) ==
    /\ w[p].pc = "snapshot"
    /\ ~raises_KeyError(w[p].data_items)
    /\ LET new == new_records(w[p].data_items, w[p].existing_ids)
           e == w[p].ei
       IN  /\ store' = [store EXCEPT ![e] = IF new # <<>> THEN append_rows(@, new)
                                            ELSE @]
           /\ load_log' = [load_log EXCEPT ![e] =
                             Append(@, [existing |-> w[p].existing_ids,
                                        items |-> w[p].data_items,
                                        sent |-> new])]
    /\ w' = [w EXCEPT ![p].ei = @ + 1, ![p].pc = "main"]
    /\ UNCHANGED <<variant, credentials, source>>
    /\ UNCHANGED <<varsA, varsC, varsP>>

\* utilities-v2 lines 26, 100-102, main-v2 lines 25, 143-145: item["id"]
\* raises, the except of main ends the run with an error
PassRaise(p) ==
    /\ w[p].pc = "snapshot"
    /\ raises_KeyError(w[p].data_items)
    /\ w' = [w EXCEPT ![p].pc = "done", ![p].result = "error"]
    /\ UNCHANGED <<variant, credentials, source, store, load_log>>
    /\ UNCHANGED <<varsA, varsC, varsP>>

\* utilities-v2 line 99, main-v2 line 142: every endpoint was processed
MainReturn(p) ==
    /\ w[p].pc = "main"
    /\ credentials
    /\ w[p].ei > Len(endpoints)
    /\ w' = [w EXCEPT ![p].pc = "done", ![p].result = "ok"]
    /\ UNCHANGED <<variant, credentials, source, store, load_log>>
    /\ UNCHANGED <<varsA, varsC, varsP>>

\* main-v2 lines 61-64, utilities-v2 lines 73-77: a credential is missing;
\* the ValueError is raised before the try and leaves main
MainNoCredentials(p) ==
    /\ w[p].pc = "main"
    /\ ~credentials
    /\ w' = [w EXCEPT ![p].pc = "done", ![p].result = "raised"]
    /\ UNCHANGED <<variant, credentials, source, store, load_log>>
    /\ UNCHANGED <<varsA, varsC, varsP>>

\* the trigger invokes main again
MainAgain(p) ==
    /\ w[p].pc = "done"
    /\ w[p].call < MaxCalls
    /\ w' = [w EXCEPT ![p] = [pc |-> "main", ei |-> 1, call |-> w[p].call + 1,
                              data_items |-> ListData(<<>>), existing_ids |-> {},
                              called |-> {}, result |-> ""]]
    /\ UNCHANGED <<variant, credentials, source, store, load_log>>
    /\ UNCHANGED <<varsA, varsC, varsP>>

----------------------------------------------------------------------------
(* main.py: process_transactions *)

\* line 23
DEFAULT_DATASET_ID == "liv265_test"

\* Client_Schema of the rows the configuration query may return
ConfigRows == SeqsUpTo({"client_a", "client_b"}, MaxConfigs)

NoResponse == [status |-> "", code |-> 0]

\* get_client_config without the default configuration
get_client_config_rows(rows) == rows

\* lines 96-106: the rows of the query, or the default configuration
get_client_config(rows) == IF rows = <<>> THEN <<DEFAULT_DATASET_ID>> ELSE rows

\* lines 74-76: the handler of process_transactions
error_response == [status |-> "error", code |-> 500]

\* lines 36-42: the configuration query succeeds
GetConfig ==
    /\ t_pc = "start"
    /\ \E rows \in ConfigRows : client_config' = get_client_config(rows)
    /\ t_i' = 1
    /\ t_pc' = IF client_config' = <<>> THEN "done" ELSE "fetch"
    /\ response' = IF client_config' = <<>>
                   THEN [status |-> "warning", code |-> 200] ELSE response
    /\ UNCHANGED <<transactions, results, status_updates, inserted>>
    /\ UNCHANGED <<varsA, varsB, varsP>>

\* lines 93-94, 74-76: the configuration query raises
GetConfigRaise ==
    /\ t_pc = "start"
    /\ response' = error_response
    /\ t_pc' = "done"
    /\ UNCHANGED <<client_config, t_i, transactions, results, status_updates,
                   inserted>>
    /\ UNCHANGED <<varsA, varsB, varsP>>

\* lines 45-52, 130-161: fetch_transactions returns its list
Fetch ==
    /\ t_pc = "fetch"
    /\ t_i <= Len(client_config)
    /\ \E n \in 0..MaxTransactions : transactions' = n
    /\ t_pc' = IF transactions' > 0 THEN "load" ELSE "no_data"
    /\ UNCHANGED <<client_config, t_i, results, status_updates, inserted,
                   response>>
    /\ UNCHANGED <<varsA, varsB, varsP>>

\* lines 148-149, 74-76: a request of fetch_transactions raises
FetchRaise ==
    /\ t_pc = "fetch"
    /\ t_i <= Len(client_config)
    /\ response' = error_response
    /\ t_pc' = "done"
    /\ UNCHANGED <<client_config, t_i, transactions, results, status_updates,
                   inserted>>
    /\ UNCHANGED <<varsA, varsB, varsP>>

\* lines 54, 163-192: the rows are inserted without errors
LoadRows ==
    /\ t_pc = "load"
    /\ inserted' = Append(inserted, [client_schema |-> client_config[t_i],
                                     rows |-> transactions])
    /\ t_pc' = "update"
    /\ UNCHANGED <<client_config, t_i, transactions, results, status_updates,
                   response>>
    /\ UNCHANGED <<varsA, varsB, varsP>>

\* LoadRaise with the status set to SUCCESS before the error is returned
LoadRaise_after_update ==
    /\ t_pc = "load"
    /\ status_updates' = Append(status_updates,
                                [client_schema |-> client_config[t_i],
                                 status |-> "SUCCESS"])
    /\ response' = error_response
    /\ t_pc' = "done"
    /\ UNCHANGED <<client_config, t_i, transactions, results, inserted>>
    /\ UNCHANGED <<varsA, varsB, varsP>>

\* lines 186-189, 74-76: the insert reports errors (or a store call raises)
LoadRaise ==
    /\ t_pc = "load"
    /\ response' = error_response
    /\ t_pc' = "done"
    /\ UNCHANGED <<client_config, t_i, transactions, results, status_updates,
                   inserted>>
    /\ UNCHANGED <<varsA, varsB, varsP>>

\* lines 57-63: update_sync_status(.., 'SUCCESS', ..) and the result entry
UpdateSuccess ==
    /\ t_pc = "update"
    /\ status_updates' = Append(status_updates,
                                [client_schema |-> client_config[t_i],
                                 status |-> "SUCCESS"])
    /\ results' = Append(results, [client_schema |-> client_config[t_i],
                                   status |-> "success",
                                   records_loaded |-> transactions])
    /\ t_i' = t_i + 1
    /\ t_pc' = "fetch"
    /\ UNCHANGED <<client_config, transactions, inserted, response>>
    /\ UNCHANGED <<varsA, varsB, varsP>>

\* lines 65-70: update_sync_status(.., 'NO_DATA') and the result entry
UpdateNoData ==
    /\ t_pc = "no_data"
    /\ status_updates' = Append(status_updates,
                                [client_schema |-> client_config[t_i],
                                 status |-> "NO_DATA"])
    /\ results' = Append(results, [client_schema |-> client_config[t_i],
                                   status |-> "warning",
                                   records_loaded |-> 0])
    /\ t_i' = t_i + 1
    /\ t_pc' = "fetch"
    /\ UNCHANGED <<client_config, transactions, inserted, response>>
    /\ UNCHANGED <<varsA, varsB, varsP>>

\* lines 126-127, 74-76: the update query of update_sync_status raises
UpdateRaise ==
    /\ t_pc \in {"update", "no_data"}
    /\ response' = error_response
    /\ t_pc' = "done"
    /\ UNCHANGED <<client_config, t_i, transactions, results, status_updates,
                   inserted>>
    /\ UNCHANGED <<varsA, varsB, varsP>>

\* line 72: every configuration was processed
Respond ==
    /\ t_pc = "fetch"
    /\ t_i > Len(client_config)
    /\ response' = [status |-> "success", code |-> 200]
    /\ t_pc' = "done"
    /\ UNCHANGED <<client_config, t_i, transactions, results, status_updates,
                   inserted>>
    /\ UNCHANGED <<varsA, varsB, varsP>>

----------------------------------------------------------------------------
(* utilities.py: get_existing_record_ids *)

\* ids a destination table may hold in its id column
StoredIds == {IntId("1"), StrId("1"), StrId("2")}

\* line 82 with the ids taken as they are stored
existing_ids_of_raw(rows) == Range(rows)

\* line 82: {str(row.id) for row in results}
existing_ids_of(rows) == {str(rows[i]) : i \in 1..Len(rows)}

\* lines 79-82: the query succeeds
QueryRows ==
    /\ q_pc = "call"
    /\ ~q_fails
    /\ q_result' = existing_ids_of(q_rows)
    /\ q_pc' = "returned"
    /\ UNCHANGED <<q_rows, q_fails>>
    /\ UNCHANGED <<varsA, varsB, varsC>>
    /\ UNCHANGED <<varsE, varsF, varsG>>

\* lines 83-85: the query raises (the table does not exist, ..); set()
QueryExcept ==
    /\ q_pc = "call"
    /\ q_fails
    /\ q_result' = {}
    /\ q_pc' = "returned"
    /\ UNCHANGED <<q_rows, q_fails>>
    /\ UNCHANGED <<varsA, varsB, varsC>>
    /\ UNCHANGED <<varsE, varsF, varsG>>

----------------------------------------------------------------------------
(* Values and the conversions of Python *)

\* A value is [t |-> its type, v |-> its text]; IntId, StrId and NoneId are
\* the int, str and None values.
FloatV(v) == [t |-> "float", v |-> v]
DateV(v) == [t |-> "datetime", v |-> v]

\* an exception raised in place of a value
ValueError == [t |-> "raise", v |-> "ValueError"]
TypeError == [t |-> "raise", v |-> "TypeError"]

raised(x) == x.t = "raise"

\* float(x)
FloatOfText == ("12" :> "12.0") @@ ("1.5" :> "1.5") @@ ("7" :> "7.0")
                 @@ ("1" :> "1.0") @@ ("2" :> "2.0")

float(x) ==
    CASE x.t = "float" -> x
      [] x.t \in {"int", "str"} /\ x.v \in DOMAIN FloatOfText -> FloatV(FloatOfText[x.v])
      [] x.t = "str" -> ValueError
      [] OTHER -> TypeError

\* int(x)
IntOfText == ("12" :> "12") @@ ("7" :> "7") @@ ("1" :> "1") @@ ("2" :> "2")

IntOfFloat == ("2.5" :> "2") @@ ("12.0" :> "12") @@ ("1.5" :> "1")

int(x) ==
    CASE x.t = "int" -> x
      [] x.t = "float" /\ x.v \in DOMAIN IntOfFloat -> IntId(IntOfFloat[x.v])
      [] x.t = "str" /\ x.v \in DOMAIN IntOfText -> IntId(IntOfText[x.v])
      [] x.t = "str" -> ValueError
      [] OTHER -> TypeError

\* datetime.fromisoformat(str(x).replace("Z", "+00:00"))
IsoOfText == ("2024-01-01T10:00:00Z" :> "2024-01-01T10:00:00+00:00")

fromisoformat(x) ==
    IF str(x).v \in DOMAIN IsoOfText THEN DateV(IsoOfText[str(x).v])
    ELSE ValueError

\* `not x`
falsy(x) == x = NoneId \/ x = StrId("") \/ x = IntId("0")

\* value.split(".")[0]
BeforeDot == ("2024-01-01T10:00:00.123Z" :> "2024-01-01T10:00:00")
               @@ ("1.5" :> "1") @@ ("2.5" :> "2") @@ ("12.0" :> "12")

\* utilities.py lines 20-28
format_datetime(value) ==
    IF falsy(value) THEN NoneId
    ELSE IF value.t # "str" THEN NoneId
    ELSE IF value.v \in DOMAIN BeforeDot THEN StrId(BeforeDot[value.v])
    ELSE value

\* utilities.py lines 93-106: the cast of one field of the row
cast_value(field_type, value) ==
    IF value = NoneId THEN NoneId
    ELSE CASE field_type = "STRING" -> str(value)
           [] field_type = "INTEGER" -> int(value)
           [] field_type = "FLOAT" -> float(value)
           [] field_type = "TIMESTAMP" -> format_datetime(value)
           [] OTHER -> value

----------------------------------------------------------------------------
(* utilities.py: load_to_bigquery, batch by batch *)

\* items passed as data: id, attributes["amount"]
LoadItems ==
    { [id |-> IntId("1"), amount |-> StrId("12")],
      [id |-> StrId("2"), amount |-> StrId("1.5")],
      [id |-> StrId("2"), amount |-> StrId("abc")] }

\* lines 128-144: the row of one item under the schema (id STRING, amount FLOAT)
row_of(item) == [id |-> cast_value("STRING", str(item.id)),
                 amount |-> cast_value("FLOAT", item.amount)]

\* line 144: cast_to_schema raises for some item
cast_raises(data) == \E i \in 1..Len(data) : raised(row_of(data[i]).amount)

\* line 149: inserts[i:i+batch_size], i counted from 0
batch_of(rows, i, size) ==
    SubSeq(rows, i + 1, IF i + size < Len(rows) THEN i + size ELSE Len(rows))

\* line 150: i // batch_size + 1
batch_number(i, size) == (i \div size) + 1

\* lines 112-114: no data, return
LoadNoData ==
    /\ l_pc = "call"
    /\ l_data = <<>>
    /\ l_pc' = "returned"
    /\ UNCHANGED <<l_data, batch_size, l_fail, inserts, l_i, l_table, l_calls>>
    /\ UNCHANGED <<varsA, varsB, varsC>>
    /\ UNCHANGED <<varsD, varsF, varsG>>

\* lines 116-145: the schema is fetched and the rows are built
LoadPrepare ==
    /\ l_pc = "call"
    /\ l_data # <<>>
    /\ ~cast_raises(l_data)
    /\ l_calls' = Append(l_calls, [op |-> "get_table", batch |-> <<>>,
                                   outcome |-> "ok"])
    /\ inserts' = [k \in 1..Len(l_data) |-> row_of(l_data[k])]
    /\ l_i' = 0
    /\ l_pc' = "batches"
    /\ UNCHANGED <<l_data, batch_size, l_fail, l_table>>
    /\ UNCHANGED <<varsA, varsB, varsC>>
    /\ UNCHANGED <<varsD, varsF, varsG>>

\* lines 116-144: cast_to_schema raises; load_to_bigquery has no handler here
LoadCastRaise ==
    /\ l_pc = "call"
    /\ l_data # <<>>
    /\ cast_raises(l_data)
    /\ l_calls' = Append(l_calls, [op |-> "get_table", batch |-> <<>>,
                                   outcome |-> "ok"])
    /\ l_pc' = "raised"
    /\ UNCHANGED <<l_data, batch_size, l_fail, inserts, l_i, l_table>>
    /\ UNCHANGED <<varsA, varsB, varsC>>
    /\ UNCHANGED <<varsD, varsF, varsG>>

\* InsertBatchExcept with the exception leaving load_to_bigquery
InsertBatchExcept_propagates ==
    /\ l_pc = "batches"
    /\ l_i < Len(inserts)
    /\ batch_number(l_i, batch_size) \in l_fail.batches
    /\ l_fail.how = "raises"
    /\ l_calls' = Append(l_calls, [op |-> "insert_rows_json",
                                   batch |-> batch_of(inserts, l_i, batch_size),
                                   outcome |-> "raises"])
    /\ l_pc' = "raised"
    /\ UNCHANGED <<l_data, batch_size, l_fail, inserts, l_i, l_table>>
    /\ UNCHANGED <<varsA, varsB, varsC>>
    /\ UNCHANGED <<varsD, varsF, varsG>>

\* lines 148-152, 157-158: insert_rows_json raises; the handler prints it
InsertBatchExcept ==
    /\ l_pc = "batches"
    /\ l_i < Len(inserts)
    /\ batch_number(l_i, batch_size) \in l_fail.batches
    /\ l_fail.how = "raises"
    /\ l_calls' = Append(l_calls, [op |-> "insert_rows_json",
                                   batch |-> batch_of(inserts, l_i, batch_size),
                                   outcome |-> "raises"])
    /\ l_i' = l_i + batch_size
    /\ UNCHANGED <<l_data, batch_size, l_fail, l_pc, inserts, l_table>>
    /\ UNCHANGED <<varsA, varsB, varsC>>
    /\ UNCHANGED <<varsD, varsF, varsG>>

\* InsertBatch that takes every batch from the start of inserts
InsertBatch_first_rows ==
    /\ l_pc = "batches"
    /\ l_i < Len(inserts)
    /\ ~(batch_number(l_i, batch_size) \in l_fail.batches /\ l_fail.how = "raises")
    /\ LET batch == batch_of(inserts, 0, batch_size)
           errors == batch_number(l_i, batch_size) \in l_fail.batches
       IN  /\ l_calls' = Append(l_calls, [op |-> "insert_rows_json",
                                          batch |-> batch,
                                          outcome |-> IF errors THEN "errors"
                                                      ELSE "ok"])
           /\ l_table' = IF errors THEN l_table ELSE l_table \o batch
    /\ l_i' = l_i + batch_size
    /\ UNCHANGED <<l_data, batch_size, l_fail, l_pc, inserts>>
    /\ UNCHANGED <<varsA, varsB, varsC>>
    /\ UNCHANGED <<varsD, varsF, varsG>>

\* lines 148-156: insert_rows_json returns, with row errors or without
InsertBatch ==
    /\ l_pc = "batches"
    /\ l_i < Len(inserts)
    /\ ~(batch_number(l_i, batch_size) \in l_fail.batches /\ l_fail.how = "raises")
    /\ LET batch == batch_of(inserts, l_i, batch_size)
           errors == batch_number(l_i, batch_size) \in l_fail.batches
       IN  /\ l_calls' = Append(l_calls, [op |-> "insert_rows_json",
                                          batch |-> batch,
                                          outcome |-> IF errors THEN "errors"
                                                      ELSE "ok"])
           /\ l_table' = IF errors THEN l_table ELSE l_table \o batch
    /\ l_i' = l_i + batch_size
    /\ UNCHANGED <<l_data, batch_size, l_fail, l_pc, inserts>>
    /\ UNCHANGED <<varsA, varsB, varsC>>
    /\ UNCHANGED <<varsD, varsF, varsG>>

\* line 148: the range is exhausted; load_to_bigquery returns
LoadReturn ==
    /\ l_pc = "batches"
    /\ l_i >= Len(inserts)
    /\ l_pc' = "returned"
    /\ UNCHANGED <<l_data, batch_size, l_fail, inserts, l_i, l_table, l_calls>>
    /\ UNCHANGED <<varsA, varsB, varsC>>
    /\ UNCHANGED <<varsD, varsF, varsG>>

----------------------------------------------------------------------------
(* main-v2.py, utilities-v2.py, utilities.py: one field of one item *)

FieldTypes == {"STRING", "INTEGER", "FLOAT", "TIMESTAMP"}

\* the key is not in the dict
Absent == [t |-> "absent", v |-> ""]

\* values an attribute may hold
AttributeValues ==
    { NoneId, StrId(""), StrId("abc"), StrId("12"), StrId("1.5"), IntId("7"),
      FloatV("2.5"), StrId("2024-01-01T10:00:00Z"),
      StrId("2024-01-01T10:00:00.123Z") }

\* item.get("relationships"): the key is absent; the field's name is not a key
\* of it; relationships[name]["data"] is null; it is {"id": "F9"}
RelationshipShapes == {"absent", "no_key", "data_null", "data_F9"}

NormaliseItems == [attr : AttributeValues \cup {Absent}, rel : RelationshipShapes]

\* dict.get(key)
get(x) == IF x = Absent THEN NoneId ELSE x

\* relationships[field.name].get("data")
rel_data(item) == IF item.rel = "data_F9" THEN StrId("F9") ELSE NoneId

\* extract with the relationship consulted before the attribute
extract_relationship_first(item) ==
    IF item.rel \in {"data_null", "data_F9"} /\ rel_data(item) # NoneId
    THEN rel_data(item)
    ELSE get(item.attr)

\* main-v2 lines 32-37, utilities-v2 lines 32-37: value of the field
extract(item) ==
    LET value == get(item.attr)
    IN  IF value = NoneId /\ item.rel \in {"data_null", "data_F9"}
        THEN IF rel_data(item) # NoneId THEN rel_data(item) ELSE value
        ELSE value

\* try: .. except (ValueError, TypeError): default
except_default(result, default) == IF raised(result) THEN default ELSE result

\* utilities-v2 lines 39-58: non-null values are converted, failures absorbed;
\* main-v2 lines 39-45: null values are defaulted, others are left as they are
coerce(field_type, value) ==
    IF variant = "utilities-v2"
    THEN IF value = NoneId THEN NoneId
         ELSE CASE field_type = "FLOAT" -> except_default(float(value), FloatV("0.0"))
                [] field_type = "INTEGER" -> except_default(int(value), IntId("0"))
                [] field_type = "TIMESTAMP" -> except_default(fromisoformat(value), NoneId)
                [] field_type = "STRING" -> str(value)
                [] OTHER -> value
    ELSE IF value # NoneId THEN value
         ELSE CASE field_type = "STRING" -> StrId("")
                [] field_type \in {"FLOAT", "INTEGER"} -> IntId("0")
                [] OTHER -> NoneId

\* main-v2 lines 32-37, utilities-v2 lines 32-37
Extract ==
    /\ n_pc = "extract"
    /\ n_value' = extract(n_item)
    /\ n_pc' = "coerce"
    /\ UNCHANGED <<n_path, n_type, n_item, n_out>>
    /\ UNCHANGED <<varsA, varsB, varsC>>
    /\ UNCHANGED <<varsD, varsE, varsG>>

\* main-v2 lines 39-47, utilities-v2 lines 39-61: record[field.name] = value
Coerce ==
    /\ n_pc = "coerce"
    /\ n_out' = coerce(n_type, n_value)
    /\ n_pc' = "done"
    /\ UNCHANGED <<n_path, n_type, n_item, n_value>>
    /\ UNCHANGED <<varsA, varsB, varsC>>
    /\ UNCHANGED <<varsD, varsE, varsG>>

\* utilities.py lines 93-106: value = row.get(field_name), cast or raise
CastField ==
    /\ n_pc = "cast"
    /\ n_value' = get(n_item.attr)
    /\ n_out' = cast_value(n_type, n_value')
    /\ n_pc' = IF raised(n_out') THEN "raised" ELSE "done"
    /\ UNCHANGED <<n_path, n_type, n_item>>
    /\ UNCHANGED <<varsA, varsB, varsC>>
    /\ UNCHANGED <<varsD, varsE, varsG>>

----------------------------------------------------------------------------
(* utilities.py: extract_primary_from_array, flatten_address_object,
   flatten_donor_data *)

\* An element of email_addresses / phone_numbers. primary is "true", "false",
\* or "absent" when the element has no "primary" key.
Emails == [primary : {"true", "false", "absent"},
           address : {"a@x.com", "b@x.com"}]

Phones == { <<>>,
            <<[primary |-> "false", number |-> "555-0100"]>>,
            <<[primary |-> "false", number |-> "555-0100"],
              [primary |-> "true", number |-> "555-0199"]>> }

AddressElement(primary) ==
    [primary |-> primary, street_line_1 |-> "1 Main St",
     street_line_2 |-> NULL, city |-> "Springfield", state |-> "IL",
     zip |-> "62701"]

\* attributes["address"]: the key is missing; an empty list; a list of
\* addresses; one address object
Addresses ==
    { [shape |-> "missing", items |-> <<>>],
      [shape |-> "list", items |-> <<>>],
      [shape |-> "list", items |-> <<AddressElement("true")>>],
      [shape |-> "list", items |-> <<AddressElement("false")>>],
      [shape |-> "object", items |-> <<AddressElement("absent")>>] }

DonorAttributes ==
    [address : Addresses,
     email_addresses : SeqsUpTo(Emails, MaxEmails),
     phone_numbers : Phones]

\* dict.get(key) on an element; no element has the key None
get_key(element, key) ==
    IF key \in DOMAIN element THEN element[key] ELSE NULL

\* the positions of the elements flagged primary
primaries(array) == {i \in 1..Len(array) : array[i].primary = "true"}

\* primary_index that falls back on the first element
primary_index_or_first(array) ==
    IF primaries(array) = {} THEN 1
    ELSE CHOOSE i \in primaries(array) : \A j \in primaries(array) : i <= j

\* line 34: next((item for item in array if item.get("primary", False)), None);
\* 0 stands for None
primary_index(array) ==
    IF primaries(array) = {} THEN 0
    ELSE CHOOSE i \in primaries(array) : \A j \in primaries(array) : i <= j

\* lines 30-35
extract_primary_from_array(array, key) ==
    IF array = <<>> THEN NULL
    ELSE IF primary_index(array) = 0 THEN NULL
    ELSE get_key(array[primary_index(array)], key)

\* lines 37-53
flatten_address_object(address) ==
    IF address = NULL
    THEN [address_line1 |-> NULL, address_line2 |-> NULL, address_city |-> NULL,
          address_state |-> NULL, address_postal_code |-> NULL]
    ELSE [address_line1 |-> get_key(address, "street_line_1"),
          address_line2 |-> get_key(address, "street_line_2"),
          address_city |-> get_key(address, "city"),
          address_state |-> get_key(address, "state"),
          address_postal_code |-> get_key(address, "zip")]

\* lines 57-73; the key passed for the address is None
flatten_donor_data(attributes) ==
    LET flattened_address ==
            flatten_address_object(
                extract_primary_from_array(attributes.address.items, NULL))
    IN  [address_line1 |-> flattened_address.address_line1,
         address_line2 |-> flattened_address.address_line2,
         address_city |-> flattened_address.address_city,
         address_state |-> flattened_address.address_state,
         address_postal_code |-> flattened_address.address_postal_code,
         email_address |-> extract_primary_from_array(attributes.email_addresses,
                                                      "address"),
         phone_number |-> extract_primary_from_array(attributes.phone_numbers,
                                                     "number")]

\* lines 55-73: flatten_donor_data returns
FlattenDonor ==
    /\ d_pc = "call"
    /\ d_attributes.address.shape # "object"
    /\ d_out' = flatten_donor_data(d_attributes)
    /\ d_pc' = "returned"
    /\ UNCHANGED d_attributes
    /\ UNCHANGED <<varsA, varsB, varsC>>
    /\ UNCHANGED <<varsD, varsE, varsF>>

\* lines 62, 34: the address is one object; iterating it yields its keys and
\* item.get on a key raises AttributeError
FlattenDonorRaise ==
    /\ d_pc = "call"
    /\ d_attributes.address.shape = "object"
    /\ d_pc' = "raised"
    /\ UNCHANGED <<d_attributes, d_out>>
    /\ UNCHANGED <<varsA, varsB, varsC>>
    /\ UNCHANGED <<varsD, varsE, varsF>>

----------------------------------------------------------------------------
(* Specifications *)

\* the variables of a program that does not run
IdleA ==
    /\ config = <<>>
    /\ hang_at = 0
    /\ api = [pages |-> <<<<>>>>, fail_at |-> 0]
    /\ run = 1
    /\ ci = 1
    /\ ei = 1
    /\ pc = "off"
    /\ filters = FALSE
    /\ next_url = 0
    /\ all_data = <<>>
    /\ request_log = <<>>
    /\ tables = [t \in TableKeys |-> <<>>]
    /\ processed = {}
    /\ failed = {}
    /\ run_error = FALSE

NoPass ==
    /\ credentials = TRUE
    /\ source = ListData(<<>>)
    /\ store = [e \in 1..Len(endpoints) |-> <<>>]
    /\ w = [p \in Workers |-> OffWorker]
    /\ load_log = [e \in 1..Len(endpoints) |-> <<>>]

IdleB ==
    /\ variant = "utilities-v2"
    /\ NoPass

IdleC ==
    /\ client_config = <<>>
    /\ t_pc = "off"
    /\ t_i = 1
    /\ transactions = 0
    /\ results = <<>>
    /\ status_updates = <<>>
    /\ inserted = <<>>
    /\ response = NoResponse

IdleD ==
    /\ q_rows = <<>>
    /\ q_fails = FALSE
    /\ q_pc = "off"
    /\ q_result = {}

IdleE ==
    /\ l_data = <<>>
    /\ batch_size = 1
    /\ l_fail = [batches |-> {}, how |-> "errors"]
    /\ l_pc = "off"
    /\ inserts = <<>>
    /\ l_i = 0
    /\ l_table = <<>>
    /\ l_calls = <<>>

IdleF ==
    /\ n_path = "process_endpoint"
    /\ n_type = "STRING"
    /\ n_item = [attr |-> Absent, rel |-> "absent"]
    /\ n_pc = "off"
    /\ n_value = NoneId
    /\ n_out = NoneId

NoDonor ==
    [address_line1 |-> NULL, address_line2 |-> NULL, address_city |-> NULL,
     address_state |-> NULL, address_postal_code |-> NULL,
     email_address |-> NULL, phone_number |-> NULL]

IdleG ==
    /\ d_attributes = [address |-> [shape |-> "missing", items |-> <<>>],
                       email_addresses |-> <<>>, phone_numbers |-> <<>>]
    /\ d_pc = "off"
    /\ d_out = NoDonor

IdleP ==
    /\ IdleD
    /\ IdleE
    /\ IdleF
    /\ IdleG

\* one call of flatten_donor_data(attributes)
InitDonor ==
    /\ IdleA
    /\ IdleB
    /\ IdleC
    /\ IdleD
    /\ IdleE
    /\ IdleF
    /\ d_attributes \in DonorAttributes
    /\ d_pc = "call"
    /\ d_out = NoDonor

NextDonor ==
    \/ FlattenDonor
    \/ FlattenDonorRaise

SpecDonor == InitDonor /\ [][NextDonor]_vars


\* one field of one item: through process_endpoint of either file, or as
\* row.get(field_name) through cast_to_schema
InitNormalise ==
    /\ IdleA
    /\ NoPass
    /\ IdleC
    /\ IdleD
    /\ IdleE
    /\ n_type \in FieldTypes
    /\ n_value = NoneId
    /\ n_out = NoneId
    /\ \/ /\ n_path = "process_endpoint"
          /\ variant \in {"main-v2", "utilities-v2"}
          /\ n_item \in NormaliseItems
          /\ n_pc = "extract"
       \/ /\ n_path = "cast_to_schema"
          /\ variant = "utilities-v2"
          /\ n_item \in [attr : AttributeValues \cup {Absent}, rel : {"absent"}]
          /\ n_pc = "cast"
    /\ IdleG

NextNormalise ==
    \/ Extract
    \/ Coerce
    \/ CastField

SpecNormalise == InitNormalise /\ [][NextNormalise]_vars


\* one call of load_to_bigquery(dataset, table, data, batch_size)
InitLoad ==
    /\ IdleA
    /\ IdleB
    /\ IdleC
    /\ IdleD
    /\ l_data \in SeqsUpTo(LoadItems, MaxLoadItems)
    /\ batch_size \in 1..MaxBatchSize
    /\ l_fail \in [batches : SUBSET (1..MaxLoadItems), how : {"errors", "raises"}]
    /\ l_pc = "call"
    /\ inserts = <<>>
    /\ l_i = 0
    /\ l_table = <<>>
    /\ l_calls = <<>>
    /\ IdleF
    /\ IdleG

NextLoad ==
    \/ LoadNoData
    \/ LoadPrepare
    \/ LoadCastRaise
    \/ InsertBatch
    \/ InsertBatchExcept
    \/ LoadReturn

SpecLoad == InitLoad /\ [][NextLoad]_vars


\* one call of get_existing_record_ids; variant is the process_endpoint whose
\* filter is applied to the result
InitIds ==
    /\ IdleA
    /\ variant \in {"main-v2", "utilities-v2"}
    /\ NoPass
    /\ IdleC
    /\ q_rows \in SeqsUpTo(StoredIds, MaxStoredIds)
    /\ q_fails \in BOOLEAN
    /\ q_pc = "call"
    /\ q_result = {}
    /\ IdleE
    /\ IdleF
    /\ IdleG

NextIds ==
    \/ QueryRows
    \/ QueryExcept

SpecIds == InitIds /\ [][NextIds]_vars

\* one invocation of process_transactions
InitTransactions ==
    /\ IdleA
    /\ IdleB
    /\ IdleP
    /\ client_config = <<>>
    /\ t_pc = "start"
    /\ t_i = 1
    /\ transactions = 0
    /\ results = <<>>
    /\ status_updates = <<>>
    /\ inserted = <<>>
    /\ response = NoResponse

NextTransactions ==
    \/ GetConfig
    \/ GetConfigRaise
    \/ Fetch
    \/ FetchRaise
    \/ LoadRows
    \/ LoadRaise
    \/ UpdateSuccess
    \/ UpdateNoData
    \/ UpdateRaise
    \/ Respond

SpecTransactions == InitTransactions /\ [][NextTransactions]_vars

\* main, invoked MaxCalls times in sequence
InitMain ==
    /\ IdleA
    /\ IdleC
    /\ IdleP
    /\ variant \in {"main-v2", "utilities-v2"}
    /\ credentials \in BOOLEAN
    /\ source \in Sources
    /\ \E rows \in Preloads : store = [e \in 1..Len(endpoints) |-> rows]
    /\ w = [p \in Workers |-> IF p = 1 THEN [OffWorker EXCEPT !.pc = "main"]
                              ELSE OffWorker]
    /\ load_log = [e \in 1..Len(endpoints) |-> <<>>]

NextMain ==
    \E p \in Workers :
        \/ PassSkip(p)
        \/ PassFetch(p)
        \/ PassSnapshot(p)
        \/ PassLoad(p)
        \/ PassRaise(p)
        \/ MainNoCredentials(p)
        \/ MainReturn(p)
        \/ MainAgain(p)

SpecMain == InitMain /\ [][NextMain]_vars

\* two invocations of main at the same time
InitConcurrent ==
    /\ IdleA
    /\ IdleC
    /\ IdleP
    /\ variant \in {"main-v2", "utilities-v2"}
    /\ credentials \in BOOLEAN
    /\ source \in Sources
    /\ \E rows \in Preloads : store = [e \in 1..Len(endpoints) |-> rows]
    /\ w = [p \in Workers |-> [OffWorker EXCEPT !.pc = "main"]]
    /\ load_log = [e \in 1..Len(endpoints) |-> <<>>]

NextConcurrent ==
    \E p \in Workers :
        \/ PassSkip(p)
        \/ PassFetch(p)
        \/ PassSnapshot(p)
        \/ PassLoad(p)
        \/ PassRaise(p)
        \/ MainNoCredentials(p)
        \/ MainReturn(p)

SpecConcurrent == InitConcurrent /\ [][NextConcurrent]_vars


\* the whole run
Init ==
    /\ config \in Configs
    /\ hang_at = 0
    /\ api \in Apis(SyncItems, MaxSyncItems, MaxSyncPages)
    /\ run = 1
    /\ ci = 1
    /\ ei = 1
    /\ pc = "start"
    /\ filters = FALSE
    /\ next_url = 0
    /\ all_data = <<>>
    /\ request_log = <<>>
    /\ tables = [t \in TableKeys |-> <<>>]
    /\ processed = {}
    /\ failed = {}
    /\ run_error = FALSE
    /\ IdleB
    /\ IdleC
    /\ IdleP

Next ==
    \/ Start
    \/ ClientEnter
    \/ ClientRaise
    \/ ClientsEnd
    \/ EndpointFetch
    \/ EndpointRaise
    \/ EndpointsEnd
    \/ FetchPage
    \/ FetchFail
    \/ FetchExit
    \/ Load
    \/ Rerun

Spec == Init /\ [][Next]_vars

\* one call of fetch_data, for any endpoint, filters and source API
InitFetch ==
    /\ config = <<"ok">>
    /\ hang_at = 0
    /\ api \in Apis(FetchItems, MaxItems, MaxPages)
    /\ run = 1
    /\ ci = 1
    /\ ei \in 1..Len(ENDPOINTS)
    /\ pc = "fetch"
    /\ filters \in BOOLEAN
    /\ next_url = 1
    /\ all_data = <<>>
    /\ request_log = <<>>
    /\ tables = [t \in TableKeys |-> <<>>]
    /\ processed = {<<1, 1, e>> : e \in 1..(ei - 1)}
    /\ failed = {}
    /\ run_error = FALSE
    /\ IdleB
    /\ IdleC
    /\ IdleP

NextFetch ==
    \/ FetchPage
    \/ FetchFail
    \/ FetchExit

SpecFetch == InitFetch /\ [][NextFetch]_vars

\* one call of fetch_data against a source API that may leave a request
\* unanswered; the interpreter runs the call as long as it can take a step
InitFetchLive ==
    /\ config = <<"ok">>
    /\ api \in Apis(SyncItems, MaxPages, MaxPages)
    /\ hang_at \in 0..Len(api.pages)
    /\ run = 1
    /\ ci = 1
    /\ ei \in 1..Len(ENDPOINTS)
    /\ pc = "fetch"
    /\ filters \in BOOLEAN
    /\ next_url = 1
    /\ all_data = <<>>
    /\ request_log = <<>>
    /\ tables = [t \in TableKeys |-> <<>>]
    /\ processed = {<<1, 1, e>> : e \in 1..(ei - 1)}
    /\ failed = {}
    /\ run_error = FALSE
    /\ IdleB
    /\ IdleC
    /\ IdleP

NextFetchLive ==
    \/ FetchPage
    \/ FetchFail
    \/ FetchHang
    \/ FetchExit

SpecFetchLive ==
    InitFetchLive /\ [][NextFetchLive]_vars /\ WF_vars(NextFetchLive)

----------------------------------------------------------------------------
(* Claims about fetch_data (SpecFetch) *)

\* an item the fetch of the current endpoint keeps
Accepted(item) ==
    ENDPOINTS[ei] = "pco-donations" => item.payment_status = "succeeded"

\* fetch_data has returned
Returned == pc = "load"

\* the pages whose request succeeded so far, in request order
ServedPages ==
    LET n == IF Returned /\ next_url # 0 THEN Len(request_log) - 1
             ELSE Len(request_log)
    IN  [k \in 1..n |-> api.pages[request_log[k]]]

\* C1: when every page request succeeds and the chain of next links ends after
\* n pages, fetch_data returns the accepted items of pages 1..n concatenated in
\* page order and in-page order, nothing lost, duplicated or reordered, and
\* exactly the n pages 1..n were requested, once each and in order.
C1_Concatenation ==
    (Returned /\ api.fail_at = 0) =>
        /\ all_data = SelectSeq(Flatten(api.pages), Accepted)
        /\ request_log = [k \in 1..Len(api.pages) |-> k]

\* C1 witness: a two-page fetch of donations returned, both pages holding an
\* accepted item and some item having been dropped.
C1_Witness ==
    /\ Returned
    /\ api.fail_at = 0
    /\ Len(api.pages) = 2
    /\ ENDPOINTS[ei] = "pco-donations"
    /\ \A k \in 1..2 : \E i \in 1..Len(api.pages[k]) : Accepted(api.pages[k][i])
    /\ Len(all_data) < Len(Flatten(api.pages))
    /\ all_data[1] # all_data[Len(all_data)]

\* C2: when the request for page k fails with a transport failure, fetch_data
\* returns without raising, no page after k is requested, and the result is
\* exactly the accepted items of pages 1..k-1 (empty when k = 1).
C2_TransportFailure ==
    (Returned /\ api.fail_at # 0) =>
        /\ all_data = SelectSeq(Flatten(SubSeq(api.pages, 1, api.fail_at - 1)),
                                Accepted)
        /\ request_log = [k \in 1..api.fail_at |-> k]
        /\ ~run_error

\* C2 witness: the request for page 2 failed after page 1 gave an item.
C2_Witness ==
    /\ Returned
    /\ api.fail_at = 2
    /\ all_data # <<>>
    /\ api.pages[2] # <<>>

\* C8: for the donations endpoint every item of the result has payment_status
\* "succeeded", with or without filters; for every other endpoint the result
\* holds every item of every page served, none dropped.
C8_DonationsFilter ==
    pc \in {"fetch", "load"} =>
        IF ENDPOINTS[ei] = "pco-donations"
        THEN \A i \in 1..Len(all_data) : all_data[i].payment_status = "succeeded"
        ELSE all_data = Flatten(ServedPages)

\* C8 witness: a donations fetch with filters returned items after it was
\* served a pending item and an item without payment_status.
C8_Witness ==
    /\ Returned
    /\ filters
    /\ ENDPOINTS[ei] = "pco-donations"
    /\ all_data # <<>>
    /\ \E i \in 1..Len(Flatten(ServedPages)) :
           Flatten(ServedPages)[i].payment_status = "pending"
    /\ \E i \in 1..Len(Flatten(ServedPages)) :
           Flatten(ServedPages)[i].payment_status = "none"

----------------------------------------------------------------------------
(* Claims about process_all_clients (Spec) *)

\* C4: process_client is an idempotent dedup against the stored records: no
\* step appends to a table a row whose id the table already holds, so running
\* the sync again on the same source data inserts no id twice.
C4_NoReinsert ==
    [][\A t \in TableKeys :
          \A k \in (Len(tables[t]) + 1)..Len(tables'[t]) :
              \A j \in 1..Len(tables[t]) : tables[t][j].id # tables'[t][k].id]_vars

\* C5: an exception in the processing of one client, also one raised while its
\* name, credentials or dataset are read, stops nothing else: when the run
\* ends, every endpoint of every well-formed client has been processed.
C5_Bulkhead ==
    pc = "done" =>
        \A c \in 1..Len(config) :
            config[c] = "ok" =>
                \A e \in 1..Len(ENDPOINTS) : <<run, c, e>> \in processed

----------------------------------------------------------------------------
(* Claims about process_endpoint and main (SpecMain, SpecConcurrent) *)

\* the string forms of the ids of the non-empty items of a fetched collection
FetchedIds(data_items) ==
    LET its == SelectSeq(data_items.items, LAMBDA item : item.kind = "item")
    IN  [i \in 1..Len(its) |-> StrId(its[i].id.v)]

IdsOf(records) == [i \in 1..Len(records) |-> records[i].id]

\* utilities-v2.py compares every id in its string form; main-v2.py compares
\* the id as fetched, which is its string form when the id arrives as a string
StringIds(data_items) ==
    \/ variant = "utilities-v2"
    \/ \A i \in 1..Len(items_of(data_items)) :
           items_of(data_items)[i].id.t = "str"

C6_AllEndpointsRun ==
    \A p \in Workers :
        (w[p].pc = "done" /\ credentials) => w[p].called = 1..Len(endpoints)

\* C9: two passes of process_endpoint that run at the same time against one
\* table never both send the same id for insertion.
C9_NoDoubleInsert ==
    \A e \in 1..Len(endpoints) :
        \A j, k \in 1..Len(load_log[e]) :
            (j < k /\ StringIds(load_log[e][j].items)) =>
                Range(IdsOf(load_log[e][j].sent))
                    \cap Range(IdsOf(load_log[e][k].sent)) = {}

----------------------------------------------------------------------------
(* Claims about process_transactions (SpecTransactions) *)

\* C7: a failure while fetching, loading or updating the status for one
\* client configuration does not keep the remaining configurations from being
\* processed: when process_transactions has returned, every configuration has
\* its entry in results, the failed one included.
C7_RemainingClientsRun ==
    (t_pc = "done" /\ client_config # <<>>) =>
        Len(results) = Len(client_config)

----------------------------------------------------------------------------
(* Claims about get_existing_record_ids (SpecIds) *)

\* C11: when the query fails get_existing_record_ids returns the empty set and
\* does not raise; when it succeeds it returns exactly the string forms of the
\* ids of all rows.  The filter of process_endpoint applied to the empty
\* result finds every fetched item new.
C11_ExistingIds ==
    q_pc = "returned" =>
        /\ q_fails => q_result = {}
        /\ ~q_fails => q_result = {StrId(q_rows[i].v) : i \in 1..Len(q_rows)}
        /\ q_result = {} =>
               \A item \in RawItems :
                   (item.kind = "item" /\ item.id # MissingId) =>
                       is_new(record_of(item), q_result)

\* C11 witness: the query failed for a table that holds rows, and the call
\* returned the empty set.
C11_Witness ==
    /\ q_pc = "returned"
    /\ q_fails
    /\ q_rows # <<>>
    /\ q_result = {}

----------------------------------------------------------------------------
(* Claims about load_to_bigquery (SpecLoad) *)

\* the insert_rows_json calls made so far, in order
InsertCalls == SelectSeq(l_calls, LAMBDA c : c.op = "insert_rows_json")

\* the normalised rows of the input items, one per item in input order
NormalisedRows == [k \in 1..Len(l_data) |-> row_of(l_data[k])]

\* C12: the rows are written in consecutive chunks of at most batch_size rows:
\* every chunk but the last holds batch_size rows, the last between 1 and
\* batch_size; the chunks in write order concatenate to a prefix of the
\* normalised rows of the input items and, once load_to_bigquery has returned,
\* to all of them, so every row is in exactly one chunk.
C12_Chunks ==
    LET chunks == [k \in 1..Len(InsertCalls) |-> InsertCalls[k].batch]
        written == Flatten(chunks)
    IN  /\ \A k \in 1..Len(chunks) :
               /\ Len(chunks[k]) >= 1
               /\ Len(chunks[k]) <= batch_size
               /\ k < Len(chunks) => Len(chunks[k]) = batch_size
        /\ Len(written) <= Len(NormalisedRows)
        /\ written = SubSeq(NormalisedRows, 1, Len(written))
        /\ (l_pc = "returned" /\ l_data # <<>>) => written = NormalisedRows

\* C12 witness: three rows were written in a chunk of two and a chunk of one.
C12_Witness ==
    /\ l_pc = "returned"
    /\ Len(NormalisedRows) = 3
    /\ Len(InsertCalls) = 2
    /\ Len(InsertCalls[1].batch) = 2
    /\ Len(InsertCalls[2].batch) = 1

\* C13: a chunk write that fails (row errors returned, or the call raises)
\* undoes no earlier chunk and keeps no later chunk from being attempted: the
\* table holds the rows of every chunk written without failure, every chunk has
\* been attempted when load_to_bigquery returns, and load_to_bigquery raises
\* only when building the rows raised, before any chunk write.
C13_ChunkFailure ==
    LET ok == SelectSeq(InsertCalls, LAMBDA c : c.outcome = "ok")
    IN  /\ l_table = Flatten([k \in 1..Len(ok) |-> ok[k].batch])
        /\ (l_pc = "returned" /\ l_data # <<>>) =>
               Len(InsertCalls) = (Len(l_data) + batch_size - 1) \div batch_size
        /\ l_pc = "raised" => (cast_raises(l_data) /\ InsertCalls = <<>>)

\* C13 witness: the second of three chunk writes raised; the first and the
\* third were written.
C13_Witness ==
    /\ l_pc = "returned"
    /\ Len(InsertCalls) = 3
    /\ InsertCalls[1].outcome = "ok"
    /\ InsertCalls[2].outcome = "raises"
    /\ InsertCalls[3].outcome = "ok"
    /\ Len(l_table) = 2

----------------------------------------------------------------------------
(* Claims about the normalisation of a field (SpecNormalise) *)

\* the value cannot be parsed as the declared type
Unparseable(field_type, value) ==
    /\ value # NoneId
    /\ \/ field_type = "FLOAT" /\ raised(float(value))
       \/ field_type = "INTEGER" /\ raised(int(value))
       \/ field_type = "TIMESTAMP" /\ raised(fromisoformat(value))

IsZero(x) == x \in {IntId("0"), FloatV("0.0")}

\* C14: a value that cannot be parsed as the declared type of its field never
\* makes the normalisation raise, and the row gets 0 for an INTEGER or FLOAT
\* field and null for a TIMESTAMP field, in process_endpoint and in
\* cast_to_schema.
C14_CoercionAbsorbed ==
    /\ n_pc # "raised"
    /\ (n_pc = "done" /\ Unparseable(n_type, n_value)) =>
           IF n_type = "TIMESTAMP" THEN n_out = NoneId ELSE IsZero(n_out)

\* C15: a null or unresolved value of an INTEGER or FLOAT field is stored as 0
\* by process_endpoint of both files and by cast_to_schema.
C15_NullNumericDefault ==
    (n_pc = "done" /\ n_type \in {"INTEGER", "FLOAT"} /\ n_value = NoneId) =>
        IsZero(n_out)

\* C17: process_endpoint resolves a field to its attribute value when that is
\* present and not null; otherwise, when the field's name is a key of the
\* item's relationships, to the id of relationships[name].data (null when data
\* is null); otherwise to null.
C17_Extraction ==
    (n_path = "process_endpoint" /\ n_pc \in {"coerce", "done"}) =>
        n_value = IF n_item.attr # Absent /\ n_item.attr # NoneId THEN n_item.attr
                  ELSE IF n_item.rel = "data_F9" THEN StrId("F9")
                  ELSE NoneId

\* C17 witness: the attribute is null and relationships[name].data.id is "F9".
C17_Witness ==
    /\ n_path = "process_endpoint"
    /\ n_pc = "coerce"
    /\ n_item.attr = NoneId
    /\ n_item.rel = "data_F9"
    /\ n_value = StrId("F9")

----------------------------------------------------------------------------
(* Further claims about process_endpoint (SpecMain) *)

\* C16: every row process_endpoint sends for insertion has the id field and
\* every field of the schema as keys, and its id is never null nor the default
\* text of a null id: an item whose id is missing or null is not emitted.
C16_RowInvariant ==
    \A e \in 1..Len(endpoints) :
        \A k \in 1..Len(load_log[e]) :
            \A r \in 1..Len(load_log[e][k].sent) :
                /\ DOMAIN load_log[e][k].sent[r] = {"id", "name"}
                /\ load_log[e][k].sent[r].id \notin {NoneId, MissingId, str(NoneId)}

\* C20: when the fetch for an endpoint returns an empty collection,
\* process_endpoint returns without any store interaction: the existing-id
\* query is never made for an empty collection.
C20_NoStoreInteraction ==
    \A p \in Workers :
        w[p].pc = "snapshot" => w[p].data_items.items # <<>>

----------------------------------------------------------------------------
(* Claims about flatten_donor_data (SpecDonor) *)

\* the value the first element flagged primary holds under the key, or null
FirstPrimary(array, key) ==
    IF \E i \in 1..Len(array) : array[i].primary = "true"
    THEN LET i == CHOOSE i \in 1..Len(array) :
                      /\ array[i].primary = "true"
                      /\ \A j \in 1..(i - 1) : array[j].primary # "true"
         IN  array[i][key]
    ELSE NULL

\* C18: the flattened email_address / phone_number is the address / number of
\* the first element flagged primary = true; it is null when the array is
\* empty or missing or holds no element flagged primary, and the first element
\* is never used as a default.
C18_PrimarySelection ==
    d_pc = "returned" =>
        /\ d_out.email_address = FirstPrimary(d_attributes.email_addresses, "address")
        /\ d_out.phone_number = FirstPrimary(d_attributes.phone_numbers, "number")

\* C18 witness: of two emails the second is flagged primary and is the one
\* selected.
C18_Witness ==
    /\ d_pc = "returned"
    /\ d_attributes.email_addresses =
           <<[primary |-> "false", address |-> "a@x.com"],
             [primary |-> "true", address |-> "b@x.com"]>>
    /\ d_out.email_address = "b@x.com"

\* C19: when the donor's attributes hold an address, flatten_donor_data
\* returns and the five flat address fields hold the address's street_line_1,
\* street_line_2, city, state and zip.
C19_AddressFlattened ==
    LET address == d_attributes.address
    IN  /\ d_pc # "raised"
        /\ (d_pc = "returned" /\ address.items # <<>>
              /\ address.items[1].primary = "true") =>
               /\ d_out.address_line1 = address.items[1].street_line_1
               /\ d_out.address_line2 = address.items[1].street_line_2
               /\ d_out.address_city = address.items[1].city
               /\ d_out.address_state = address.items[1].state
               /\ d_out.address_postal_code = address.items[1].zip

----------------------------------------------------------------------------
(* Claims about the ids process_endpoint compares (SpecMain) *)

\* C21: process_endpoint classifies an item as already existing whenever the
\* string form of its id is in the existing-id set, whether the id arrives as
\* a number or as a string: no record whose id has its string form in the
\* snapshot is sent for insertion.
C21_IdsAsStrings ==
    \A e \in 1..Len(endpoints) :
        \A k \in 1..Len(load_log[e]) :
            \A r \in 1..Len(load_log[e][k].sent) :
                str(load_log[e][k].sent[r].id) \notin load_log[e][k].existing

----------------------------------------------------------------------------
(* Claims about the termination of fetch_data (SpecFetchLive) *)

\* C22: every invocation of fetch_data eventually returns, whatever the source
\* API does: a page request that gets no answer is ended by a timeout.
C22_FetchReturns == (pc = "fetch") ~> (pc = "load")

----------------------------------------------------------------------------
(* Claims about the run-level failure of main (SpecMain) *)

\* C23: when CLIENT_ID or CLIENT_SECRET is absent, main processes no endpoint
\* and returns the failure as its result; no exception leaves main.
C23_RunLevelFailure ==
    \A p \in Workers :
        /\ w[p].result # "raised"
        /\ (w[p].pc = "done" /\ ~credentials) =>
               (w[p].called = {} /\ w[p].result = "error")

----------------------------------------------------------------------------
(* Claims about the order of the steps of one pass (SpecMain) *)

\* the steps a worker may take, as pairs of positions
PassOrder ==
    { <<"main", "main">>, <<"main", "fetched">>, <<"fetched", "snapshot">>,
      <<"snapshot", "main">>, <<"snapshot", "done">>, <<"main", "done">>,
      <<"done", "main">> }

\* C24: within one pass the fetch comes first, then the existing ids are
\* queried once, then at most one load is made: the fetched data change only
\* at the start of a pass, the snapshot changes only in the step that follows
\* the fetch (a new invocation of main starts with fresh locals), and a table
\* is written only in the step that ends a pass whose
\* snapshot was taken, by one load of that pass's new records.
C24_PipelineOrder ==
    [][/\ (store' # store \/ load_log' # load_log) =>
              \E p \in Workers : w[p].pc = "snapshot" /\ w'[p].pc = "main"
       /\ \A p \in Workers :
          /\ w'[p].pc # w[p].pc => <<w[p].pc, w'[p].pc>> \in PassOrder
          /\ (w[p].pc # "done" /\ w'[p].data_items # w[p].data_items) =>
                 w[p].pc = "main"
          /\ (w[p].pc # "done" /\ w'[p].existing_ids # w[p].existing_ids) =>
                 (w[p].pc = "fetched" /\ w'[p].pc = "snapshot")
          /\ (w[p].pc = "snapshot" /\ w'[p].pc = "main") =>
                 /\ Len(load_log'[w[p].ei]) = Len(load_log[w[p].ei]) + 1
                 /\ store'[w[p].ei] = store[w[p].ei] \o
                        new_records(w[p].data_items, w[p].existing_ids)]_vars

\* a pass has fetched, taken its snapshot and loaded new records
C24_Witness ==
    \E p \in Workers :
        /\ w[p].pc = "main"
        /\ w[p].ei = 2
        /\ w[p].existing_ids # {}
        /\ Len(load_log[1]) = 1
        /\ load_log[1][1].sent # <<>>
        /\ load_log[1][1].existing = w[p].existing_ids
        /\ Len(store[1]) = 2

----------------------------------------------------------------------------
(* Claims about ids fetched more than once (SpecMain) *)

\* C25: within one pass no id is sent for insertion more than once, even when
\* the fetched collection holds the same id more than once.
C25_NoIdSentTwice ==
    \A e \in 1..Len(endpoints) :
        \A k \in 1..Len(load_log[e]) :
            \A i, j \in 1..Len(load_log[e][k].sent) :
                load_log[e][k].sent[i].id = load_log[e][k].sent[j].id => i = j

----------------------------------------------------------------------------
(* Claims about the sync status of process_transactions (SpecTransactions) *)

\* the status updates with the given status
UpdatesWith(updates, status) ==
    SelectSeq(updates, LAMBDA u : u.status = status)

\* C26: Sync_Status is set to SUCCESS only after the client's rows were
\* inserted without error and to NO_DATA only when the fetch returned no
\* transactions; each client processed without an exception has exactly one
\* status update and one entry in results, and a step that ends the run with
\* an error (an insert that reports errors among them) makes no status update.
C26_SyncStatus ==
    [][/\ Len(status_updates') = t_i' - 1
       /\ Len(results') = t_i' - 1
       /\ \A k \in 1..Len(status_updates') :
              /\ status_updates'[k].client_schema = client_config'[k]
              /\ results'[k].client_schema = client_config'[k]
       /\ Len(UpdatesWith(status_updates', "SUCCESS")) <= Len(inserted')
       /\ status_updates' # status_updates =>
              LET u == status_updates'[Len(status_updates')]
              IN  /\ status_updates' = Append(status_updates, u)
                  /\ u.status \in {"SUCCESS", "NO_DATA"}
                  /\ u.status = "SUCCESS" =>
                         /\ transactions > 0
                         /\ Len(inserted) = Len(UpdatesWith(status_updates', "SUCCESS"))
                         /\ inserted[Len(inserted)] =
                                [client_schema |-> u.client_schema,
                                 rows |-> transactions]
                  /\ u.status = "NO_DATA" => transactions = 0
       /\ (t_pc = "load" /\ inserted' = inserted) =>
              (status_updates' = status_updates /\ response'.code = 500)
       /\ response'.status = "error" => status_updates' = status_updates]_vars

\* two clients were processed: rows inserted and SUCCESS for the first,
\* nothing fetched and NO_DATA for the second
C26_Witness ==
    /\ t_pc = "done"
    /\ response.status = "success"
    /\ Len(client_config) = 2
    /\ Len(status_updates) = 2
    /\ Len(results) = 2
    /\ status_updates[1].status = "SUCCESS"
    /\ status_updates[2].status = "NO_DATA"
    /\ Len(inserted) = 1
    /\ inserted[1].client_schema = client_config[1]

----------------------------------------------------------------------------
(* Claims about the default configuration (SpecTransactions) *)

\* C27: get_client_config never returns an empty list: without rows it
\* returns the single default configuration for DEFAULT_DATASET_ID.  So
\* process_transactions never returns the "No active client configurations
\* found" warning, and unless the query raises the sync is attempted for at
\* least one client.
C27_DefaultConfig ==
    /\ \A rows \in ConfigRows :
           /\ get_client_config(rows) # <<>>
           /\ rows = <<>> => get_client_config(rows) = <<DEFAULT_DATASET_ID>>
           /\ rows # <<>> => get_client_config(rows) = rows
    /\ response.status # "warning"
    /\ t_pc \in {"fetch", "load", "no_data", "update"} => client_config # <<>>
    /\ (t_pc = "done" /\ client_config = <<>>) =>
           (response = error_response /\ results = <<>>)
    /\ (t_pc = "done" /\ response.status = "success") => Len(results) >= 1

\* the query returned no rows and the sync ran for the default configuration
C27_Witness ==
    /\ t_pc = "done"
    /\ client_config = <<DEFAULT_DATASET_ID>>
    /\ response.status = "success"
    /\ Len(results) = 1
    /\ results[1].client_schema = DEFAULT_DATASET_ID

====
